---- MODULE Spec2Model ----
(***************************************************************************)
(* Model of the scholarly web annotation server's store                   *)
(* (src/models/annotation_store.py) and of the Annotation entity          *)
(* (src/app/models/annotation.py).                                        *)
(*                                                                        *)
(* Elasticsearch is modelled by two views of one index:                   *)
(*   es          what es.get / es.exists / es.index / es.delete see       *)
(*               (realtime, by id);                                       *)
(*   searchable  what es.search sees: the documents as of the last        *)
(*               es.indices.refresh.                                      *)
(* Both map a doc_type to a function from the ids present to documents.   *)
(* A document is a record whose fields are the keys of the JSON object.   *)
(* Annotation ids and collection ids are drawn from disjoint sets.        *)
(* failed records whether some operation so far has raised an error.      *)
(***************************************************************************)
EXTENDS Naturals, Sequences, FiniteSets, TLC

VARIABLES es, searchable, needs_refresh, failed, document, outcome, now

vars == <<es, searchable, needs_refresh, failed, document, outcome, now>>

----------------------------------------------------------------------------
(* Bounds of the model                                                     *)

\* number of annotation ids a caller may use
NumAnnotations == 3
\* longest "target" list of a submitted annotation
MaxTargets == 1
\* most members a collection is given
MaxItems == 2

\* selectors in the selector list of a target
MaxSelectors == 3

\* get_targets_info is called on a document while the calls leave no
\* selector of it with a value list longer than this
MaxValue == 6

AllAnnoIds == <<"a1", "a2", "a3", "a4">>
AnnoIds == {AllAnnoIds[i] : i \in 1..(IF NumAnnotations < 4 THEN NumAnnotations ELSE 4)}
ExtIds == {"x"}
CollIds == {"k1"}

\* get_target_list nests one call per fetched annotation: with more nested
\* calls than there are annotations an annotation is fetched twice on one
\* path, the same call recurs for ever and Python raises RecursionError.
MaxDepth == Cardinality(AnnoIds) + 1

----------------------------------------------------------------------------
(* Documents                                                               *)

EmptyFn == [i \in {} |-> {}]

Put(f, k, v) == [i \in (DOMAIN f) \cup {k} |-> IF i = k THEN v ELSE f[i]]

Remove(f, k) == [i \in (DOMAIN f) \ {k} |-> f[i]]

\* v named x in the body F: v is evaluated once
Let(v, F(_)) == CHOOSE y \in {F(x) : x \in {v}} : TRUE

\* del d[key]
DelKey(d, key) == [f \in (DOMAIN d) \ {key} |-> d[f]]

\* d[key] = v
SetKey(d, key, v) == [f \in (DOMAIN d) \cup {key} |-> IF f = key THEN v ELSE d[f]]

\* A target as submitted: a bare string, or an object with id and type.
StrTarget(s) == [string |-> s]

IsStr(target) == DOMAIN target = {"string"}

\* the targets a caller submits
RawTargets ==
    {StrTarget(i) : i \in ExtIds}
    \cup {[id |-> i, type |-> "Annotation"] : i \in AnnoIds}
    \cup {[id |-> i, type |-> "Text"] : i \in ExtIds}

TargetLists == UNION {[1..n -> RawTargets] : n \in 0..MaxTargets}

\* the target lists the properties try an operation with: one target more
ProbeLists == UNION {[1..n -> RawTargets] : n \in 0..(MaxTargets + 1)}

----------------------------------------------------------------------------
(* Annotation entity                                                       *)

\* The selector of a target with a source is absent, empty ([kind |-> "none"]),
\* one selector ([kind |-> "one", sel |-> s]) or a list of selectors
\* ([kind |-> "list", sels |-> <<s1, ...>>]).
NoSelector == [kind |-> "none"]

OneSelector(sel) == [kind |-> "one", sel |-> sel]

SelectorList(sels) == [kind |-> "list", sels |-> sels]

\* selectors as the list the loops of get_selector_info and get_selector_ids run over
selector_list(selectors) ==
    IF selectors.kind = "none" THEN <<>>
    ELSE IF selectors.kind = "one" THEN <<selectors.sel>>
    ELSE selectors.sels

\* the selectors with the k-th one given this value
with_value(selectors, k, value) ==
    IF selectors.kind = "one"
    THEN [selectors EXCEPT !.sel.value = value]
    ELSE [selectors EXCEPT !.sels[k].value = value]

\* get_subresource_info stopping at the outer subresource
get_subresource_info_outer(subresource) ==
    <<[id |-> subresource.id, type |-> subresource.type]>>

RECURSIVE get_subresource_info(_)
\* Annotation.get_subresource_info
get_subresource_info(subresource) ==
    <<[id |-> subresource.id, type |-> subresource.type]>>
    \o (IF "subresource" \in DOMAIN subresource
        THEN get_subresource_info(subresource.subresource)
        ELSE <<>>)

RECURSIVE selector_info_loop(_, _, _, _)
\* The loop of get_selector_info from the k-th selector on.  alias is 0 while
\* info is the list get_target_info made, and j once info is the value list
\* of the j-th selector (info = selector["value"] binds the same list object,
\* so info += ... extends that selector's value too): [info, selectors]
selector_info_loop(selectors, k, info, alias) ==
    IF k > Len(selector_list(selectors))
    THEN [info |-> info, selectors |-> selectors]
    ELSE Let(selector_list(selectors)[k], LAMBDA selector :
         IF selector.type = "SubresourceSelector"
         THEN Let(info \o get_subresource_info(selector.value.subresource), LAMBDA info2 :
              selector_info_loop(
                  IF alias = 0 THEN selectors ELSE with_value(selectors, alias, info2),
                  k + 1, info2, alias))
         ELSE IF selector.type = "NestedPIDSelector"
         THEN selector_info_loop(selectors, k + 1, selector.value, k)
         ELSE selector_info_loop(selectors, k + 1, info, alias))

\* Annotation.get_selector_info: [info, selectors], selectors as the call leaves them
get_selector_info(selectors, info) ==
    IF selector_list(selectors) = <<>>
    THEN [info |-> info, selectors |-> selectors]
    ELSE selector_info_loop(selectors, 1, info, 0)

\* Annotation.get_target_info: [err, info, target], target as the call leaves it
get_target_info(target) ==
    IF IsStr(target)
    THEN [err |-> "ok", info |-> <<[id |-> target.string]>>, target |-> target]
    ELSE IF "id" \in DOMAIN target
    THEN IF "type" \notin DOMAIN target
         THEN [err |-> "target requires a type property", info |-> <<>>, target |-> target]
         ELSE [err |-> "ok", info |-> <<[id |-> target.id, type |-> target.type]>>,
               target |-> target]
    ELSE IF "source" \in DOMAIN target /\ "selector" \in DOMAIN target
    THEN IF "type" \notin DOMAIN target
         THEN [err |-> "target requires a type property", info |-> <<>>, target |-> target]
         ELSE Let(get_selector_info(target.selector,
                                    <<[id |-> target.source, type |-> target.type]>>),
                  LAMBDA r :
                  [err |-> "ok", info |-> r.info,
                   target |-> [target EXCEPT !.selector = r.selectors]])
    ELSE [err |-> "target requires an id or source property", info |-> <<>>,
          target |-> target]

RECURSIVE get_targets_info(_)
\* Annotation.get_targets_info over the list Annotation.get_targets gives:
\* [err, info, targets], targets as the calls leave them
get_targets_info(targets) ==
    IF targets = <<>>
    THEN [err |-> "ok", info |-> <<>>, targets |-> <<>>]
    ELSE Let(get_target_info(Head(targets)), LAMBDA h :
         IF h.err # "ok"
         THEN [err |-> h.err, info |-> <<>>, targets |-> <<h.target>> \o Tail(targets)]
         ELSE Let(get_targets_info(Tail(targets)), LAMBDA t :
              IF t.err # "ok"
              THEN [err |-> t.err, info |-> <<>>, targets |-> <<h.target>> \o t.targets]
              ELSE [err |-> "ok", info |-> h.info \o t.info,
                    targets |-> <<h.target>> \o t.targets]))

RECURSIVE get_subresource_ids(_)
\* Annotation.get_subresource_ids
get_subresource_ids(subresource) ==
    <<subresource.id>>
    \o (IF "subresource" \in DOMAIN subresource
        THEN get_subresource_ids(subresource.subresource)
        ELSE <<>>)

RECURSIVE selector_ids_loop(_, _)
\* the loop of get_selector_ids from the k-th selector on
selector_ids_loop(sels, k) ==
    IF k > Len(sels) THEN <<>>
    ELSE (IF sels[k].type = "SubresourceSelector"
          THEN get_subresource_ids(sels[k].value.subresource)
          ELSE IF sels[k].type = "NestedPIDSelector"
          THEN [j \in 1..Len(sels[k].value) |-> sels[k].value[j].id]
          ELSE <<>>)
         \o selector_ids_loop(sels, k + 1)

\* Annotation.get_selector_ids
get_selector_ids(selectors) == selector_ids_loop(selector_list(selectors), 1)

\* a call that returns None where a list is iterated
TypeError == "TypeError"

\* Annotation.get_target_id: [err, ids]
get_target_id(target) ==
    IF IsStr(target) THEN [err |-> "ok", ids |-> <<target.string>>]
    ELSE IF "id" \in DOMAIN target THEN [err |-> "ok", ids |-> <<target.id>>]
    ELSE IF "source" \in DOMAIN target /\ "selector" \in DOMAIN target
    THEN [err |-> "ok", ids |-> <<target.source>> \o get_selector_ids(target.selector)]
    ELSE [err |-> TypeError, ids |-> <<>>]

RECURSIVE get_target_ids(_)
\* Annotation.get_target_ids over the list Annotation.get_targets gives: [err, ids]
get_target_ids(targets) ==
    IF targets = <<>>
    THEN [err |-> "ok", ids |-> <<>>]
    ELSE Let(get_target_id(Head(targets)), LAMBDA h :
         IF h.err # "ok" THEN h
         ELSE Let(get_target_ids(Tail(targets)), LAMBDA t :
              IF t.err # "ok" THEN t
              ELSE [err |-> "ok", ids |-> h.ids \o t.ids]))

----------------------------------------------------------------------------
(* Index freshness                                                         *)

\* es.indices.refresh
es_refresh(st) == [st EXCEPT !.searchable = st.es]

index_refresh(st) == [es_refresh(st) EXCEPT !.needs_refresh = FALSE]

set_index_needs_refresh(st) == [st EXCEPT !.needs_refresh = TRUE]

check_index_is_fresh(st) == IF st.needs_refresh THEN index_refresh(st) ELSE st

----------------------------------------------------------------------------
(* ES interactions                                                         *)

es_exists(st, id, doc_type) ==
    IF doc_type = "_all"
    THEN \E t \in DOMAIN st.es : id \in DOMAIN st.es[t]
    ELSE id \in DOMAIN st.es[doc_type]

es_get(st, id, doc_type) ==
    IF doc_type = "_all"
    THEN st.es[CHOOSE t \in DOMAIN st.es : id \in DOMAIN st.es[t]][id]
    ELSE st.es[doc_type][id]

has_deleted_status(src) == "status" \in DOMAIN src /\ src.status = "deleted"

is_deleted(st, id, doc_type) ==
    es_exists(st, id, doc_type) /\ has_deleted_status(es_get(st, id, doc_type))

\* should_exist taking a tombstone for an annotation that exists
should_exist_or_deleted(st, id, doc_type) == es_exists(st, id, doc_type)

\* TRUE where the code returns True, FALSE where it raises the 404 error
should_exist(st, id, doc_type) ==
    es_exists(st, id, doc_type) /\ ~is_deleted(st, id, doc_type)

\* should_not_exist taking a tombstone for an absent document
should_not_exist_or_deleted(st, id, doc_type) ==
    ~es_exists(st, id, doc_type) \/ is_deleted(st, id, doc_type)

\* should_not_exist without its test
should_not_exist_unchecked(st, id, doc_type) == TRUE

\* TRUE where the code returns True, FALSE where it raises "already exists"
should_not_exist(st, id, doc_type) == ~es_exists(st, id, doc_type)

es_index(st, doc, doc_type) ==
    [st EXCEPT !.es[doc_type] = Put(@, doc.id, doc)]

es_delete(st, id, doc_type) ==
    [st EXCEPT !.es[doc_type] = Remove(@, id)]

NotFound == "404"
AlreadyExists == "already exists"
SelfTarget == "Annotation cannot target itself"
RecursionError == "RecursionError"

\* [err, st]
add_to_index(st, doc, doc_type) ==
    IF should_not_exist(st, doc.id, doc_type)
    THEN [err |-> "ok", st |-> es_index(st, doc, doc_type)]
    ELSE [err |-> AlreadyExists, st |-> st]

\* update_in_index that checks and writes nothing
update_in_index_unwritten(st, doc, doc_type) ==
    IF should_exist(st, doc.id, doc_type)
    THEN [err |-> "ok", st |-> st]
    ELSE [err |-> NotFound, st |-> st]

\* [err, st]
update_in_index(st, doc, doc_type) ==
    IF should_exist(st, doc.id, doc_type)
    THEN [err |-> "ok", st |-> es_index(st, doc, doc_type)]
    ELSE [err |-> NotFound, st |-> st]

\* [err, st]
remove_from_index(st, id, doc_type) ==
    IF should_exist(st, id, doc_type)
    THEN [err |-> "ok", st |-> es_delete(st, id, doc_type)]
    ELSE [err |-> NotFound, st |-> st]

\* [err, doc]
get_from_index(st, id, doc_type) ==
    IF should_exist(st, id, doc_type)
    THEN [err |-> "ok", doc |-> es_get(st, id, doc_type)]
    ELSE [err |-> NotFound, doc |-> EmptyFn]

\* whether a document of the searchable view matches target_list.id = id
matches_target_list(d, id) ==
    /\ "target_list" \in DOMAIN d
    /\ \E k \in 1..Len(d.target_list) : d.target_list[k].id = id

RECURSIVE hits_in_order(_, _, _)
\* the documents of view that match, in the order ord lists their ids
hits_in_order(view, id, ord) ==
    IF ord = <<>>
    THEN <<>>
    ELSE IF Head(ord) \in DOMAIN view /\ matches_target_list(view[Head(ord)], id)
    THEN <<view[Head(ord)]>> \o hits_in_order(view, id, Tail(ord))
    ELSE hits_in_order(view, id, Tail(ord))

\* the _source of the hits of the target_list.id query
get_from_index_by_target(st, id, ord) ==
    hits_in_order(st.searchable["Annotation"], id, ord)

----------------------------------------------------------------------------
(* Target closure                                                          *)

\* is_annotation taking no target for an annotation
is_annotation_never(target) == FALSE

is_annotation(target) == "type" \in DOMAIN target /\ target.type = "Annotation"

\* get_target_list without its self-target test
targets_itself_never(target, id) == FALSE

\* the self-target test of get_target_list
targets_itself(target, id) == target.id = id

\* [err, doc, st]
get_annotation_es(st, id) ==
    Let(check_index_is_fresh(st), LAMBDA st1 :
        IF ~should_exist(st1, id, "Annotation")
        THEN [err |-> NotFound, doc |-> EmptyFn, st |-> st1]
        ELSE [err |-> "ok",
              doc |-> DelKey(get_from_index(st1, id, "Annotation").doc, "target_list"),
              st |-> st1])

\* Python's ==: a dict (a descriptor) and a str (an id) are never equal
py_eq(a, b) == a.py = b.py /\ a.v = b.v

py_in(x, list) == \E j \in 1..Len(list) : py_eq(x, list[j])

RECURSIVE merge_deeper(_, _, _)
\* the loop of get_target_list over deeper_targets
merge_deeper(target_list, target_ids, deeper_targets) ==
    IF deeper_targets = <<>>
    THEN target_list
    ELSE LET target == Head(deeper_targets)
         IN  IF ~py_in([py |-> "dict", v |-> target], target_ids)
             THEN merge_deeper(Append(target_list, target),
                               Append(target_ids, [py |-> "str", v |-> target.id]),
                               Tail(deeper_targets))
             ELSE merge_deeper(target_list, target_ids, Tail(deeper_targets))

RECURSIVE get_target_list(_, _, _, _)
RECURSIVE deeper_loop(_, _, _, _, _)

\* the first loop of get_target_list expanding no target
deeper_loop_unexpanded(st, id, target_list, k, depth) ==
    [err |-> "ok", deeper |-> <<>>, st |-> st]

\* the first loop of get_target_list from its k-th target on: [err, deeper, st]
deeper_loop(st, id, target_list, k, depth) ==
    IF k > Len(target_list)
    THEN [err |-> "ok", deeper |-> <<>>, st |-> st]
    ELSE Let(target_list[k], LAMBDA target :
         IF ~is_annotation(target)
         THEN deeper_loop(st, id, target_list, k + 1, depth)
         ELSE IF targets_itself(target, id)
         THEN [err |-> SelfTarget, deeper |-> <<>>, st |-> st]
         ELSE IF is_deleted(st, target.id, "_all")
         THEN deeper_loop(st, id, target_list, k + 1, depth)
         ELSE Let(get_annotation_es(st, target.id), LAMBDA g :
              IF g.err # "ok"
              THEN [err |-> g.err, deeper |-> <<>>, st |-> g.st]
              ELSE Let(get_target_list(g.st, target.id, g.doc.target, depth + 1), LAMBDA sub :
                   IF sub.err # "ok"
                   THEN [err |-> sub.err, deeper |-> <<>>, st |-> sub.st]
                   ELSE [deeper_loop(sub.st, id, target_list, k + 1, depth)
                            EXCEPT !.deeper = sub.list \o @])))

\* get_target_list of the annotation with this id and these targets: [err, list, st]
get_target_list(st, id, targets, depth) ==
    IF depth > MaxDepth
    THEN [err |-> RecursionError, list |-> <<>>, st |-> st]
    ELSE Let(get_targets_info(targets), LAMBDA ti :
         IF ti.err # "ok"
         THEN [err |-> ti.err, list |-> <<>>, st |-> st]
         ELSE Let(deeper_loop(st, id, ti.info, 1, depth), LAMBDA r :
              IF r.err # "ok"
              THEN [err |-> r.err, list |-> <<>>, st |-> r.st]
              ELSE [err |-> "ok",
                    list |-> merge_deeper(
                        ti.info,
                        [k \in 1..Len(ti.info) |-> [py |-> "str", v |-> ti.info[k].id]],
                        r.deeper),
                    st |-> r.st]))

\* set of the ids of a list of descriptors
IdSet(list) == {list[k].id : k \in 1..Len(list)}

\* target_list_changed reporting a change whatever the lists
target_list_always_changed(list1, list2) == TRUE

\* target_list_changed never reporting a change
target_list_never_changed(list1, list2) == FALSE

target_list_changed(list1, list2) ==
    LET ids1 == IdSet(list1)
        ids2 == IdSet(list2)
    IN  IF Cardinality(ids1) # Cardinality(ids2) THEN TRUE
        ELSE IF Cardinality(ids1 \cap ids2) # Cardinality(ids1) THEN TRUE
        ELSE IF Cardinality(ids1 \cup ids2) # Cardinality(ids1) THEN TRUE
        ELSE FALSE

----------------------------------------------------------------------------
(* Store operations                                                        *)

\* the orders in which a search lists its hits: by id, upwards or downwards
IdOrder == SelectSeq(AllAnnoIds, LAMBDA i : i \in AnnoIds)

Reverse(seq) == [k \in 1..Len(seq) |-> seq[Len(seq) + 1 - k]]

HitOrders == {IdOrder, Reverse(IdOrder)}

\* A store state with a field now holds the reading of the clock, and its
\* documents carry their timestamps; a state without it is the store with the
\* timestamps of its documents left out.
HasClock(st) == "now" \in DOMAIN st

\* Annotation.__init__: created is set when the document has none
set_created(st, annotation) ==
    IF HasClock(st) /\ "created" \notin DOMAIN annotation
    THEN SetKey(annotation, "created", st.now)
    ELSE annotation

\* Annotation.__init__ on a submitted document: "permissions" and
\* "target_list" are taken out of the data
Annotation(st, annotation) ==
    DelKey(DelKey(set_created(st, annotation), "permissions"), "target_list")

\* Annotation.update: modified is set on the submitted document, which
\* becomes the data of the annotation
annotation_update(st, updated_annotation) ==
    IF HasClock(st)
    THEN SetKey(updated_annotation, "modified", st.now)
    ELSE updated_annotation

\* what an operation hands its caller: the error raised or "ok", the documents
\* returned, and fresh: whether needs_refresh was false when the operation
\* first read the index; st is the state it leaves
Raise(e, fresh, st) == [err |-> e, ret |-> {}, fresh |-> fresh, st |-> st]

Return(ret, fresh, st) == [err |-> "ok", ret |-> ret, fresh |-> fresh, st |-> st]

\* an exception of update_chained_annotations undone: the store as it was
\* when the operation began
raise_rolled_back(st, c, fresh) == Raise(c.err, fresh, st)

\* an exception of update_chained_annotations leaves the operation that
\* called it: the store is as the cascade left it
raise_from_cascade(st, c, fresh) == Raise(c.err, fresh, c.st)

\* [err, ret, fresh, st]
add_annotation_es(st, annotation) ==
    Let(Annotation(st, annotation), LAMBDA anno :
    IF ~should_not_exist(st, anno.id, anno.type)
    THEN Raise(AlreadyExists, ~st.needs_refresh, st)
    ELSE Let(get_target_list(st, anno.id, anno.target, 1), LAMBDA tl :
         IF tl.err # "ok"
         THEN Raise(tl.err, ~st.needs_refresh, tl.st)
         ELSE Let(SetKey(anno, "target_list", tl.list), LAMBDA data :
              Let(add_to_index(tl.st, data, anno.type), LAMBDA w :
              IF w.err # "ok"
              THEN Raise(w.err, ~st.needs_refresh, w.st)
              ELSE Return({DelKey(data, "target_list")}, ~st.needs_refresh,
                          set_index_needs_refresh(w.st))))))

\* deepest nesting of update_chained_annotations the model follows
MaxCascade == Cardinality(AnnoIds) + 2

\* update_chained_annotations leaving every annotation as it is
update_chained_annotations_skipped(st, annotation_id, ord, depth) ==
    [err |-> "ok", st |-> st]

RECURSIVE update_annotation_es(_, _, _, _)
RECURSIVE update_chained_annotations(_, _, _, _)
RECURSIVE chain_loop(_, _, _, _, _)

\* [err, ret, fresh, st]
update_annotation_es(st, updated_annotation_json, ord, depth) ==
    Let(get_from_index(st, updated_annotation_json.id, "Annotation"), LAMBDA g :
    IF g.err # "ok"
    THEN Raise(g.err, ~st.needs_refresh, st)
    ELSE \* Annotation.update: data = updated_annotation
         Let(get_target_list(st, updated_annotation_json.id,
                             updated_annotation_json.target, 1), LAMBDA tl :
         IF tl.err # "ok"
         THEN Raise(tl.err, ~st.needs_refresh, tl.st)
         ELSE Let(SetKey(annotation_update(st, updated_annotation_json),
                         "target_list", tl.list), LAMBDA data :
              Let(update_in_index(tl.st, data, data.type), LAMBDA w :
              IF w.err # "ok"
              THEN Raise(w.err, ~st.needs_refresh, w.st)
              ELSE Let(IF target_list_changed(tl.list, g.doc.target_list)
                       THEN update_chained_annotations(w.st, data.id, ord, depth)
                       ELSE [err |-> "ok", st |-> w.st], LAMBDA c :
                   IF c.err # "ok"
                   THEN raise_from_cascade(st, c, ~st.needs_refresh)
                   ELSE Return({DelKey(data, "target_list")}, ~st.needs_refresh,
                               set_index_needs_refresh(c.st)))))))

\* the loop of update_chained_annotations over its hits: [err, st]
chain_loop(st, annotation_id, chain_annotations, ord, depth) ==
    IF chain_annotations = <<>>
    THEN [err |-> "ok", st |-> st]
    ELSE Let(Head(chain_annotations), LAMBDA chain_annotation :
         IF chain_annotation.id = annotation_id
         THEN [err |-> SelfTarget, st |-> st]
         ELSE Let(get_target_list(st, chain_annotation.id,
                                  Annotation(st, chain_annotation).target, 1), LAMBDA tl :
              IF tl.err # "ok"
              THEN [err |-> tl.err, st |-> tl.st]
              ELSE Let(update_annotation_es(
                           tl.st,
                           SetKey(Annotation(st, chain_annotation), "target_list", tl.list),
                           ord, depth + 1), LAMBDA u :
                   IF u.err # "ok"
                   THEN [err |-> u.err, st |-> u.st]
                   ELSE chain_loop(u.st, annotation_id, Tail(chain_annotations),
                                   ord, depth))))

\* [err, st]
update_chained_annotations(st, annotation_id, ord, depth) ==
    IF depth > MaxCascade
    THEN [err |-> RecursionError, st |-> st]
    ELSE Let(es_refresh(st), LAMBDA st1 :
         Let(get_from_index_by_target(st1, annotation_id, ord), LAMBDA hits :
             chain_loop(st1, annotation_id, hits, ord, depth)))

Tombstone(id, doc_type) == [id |-> id, type |-> doc_type, status |-> "deleted"]

\* [err, ret, fresh, st]
remove_annotation_es(st, annotation_id, ord) ==
    Let(check_index_is_fresh(st), LAMBDA st1 :
    IF ~should_exist(st1, annotation_id, "Annotation")
    THEN Raise(NotFound, ~st1.needs_refresh, st1)
    ELSE Let(remove_from_index(st1, annotation_id, "Annotation"), LAMBDA rm :
         IF rm.err # "ok"
         THEN Raise(rm.err, ~st1.needs_refresh, rm.st)
         ELSE Let(add_to_index(rm.st, Tombstone(annotation_id, "Annotation"),
                               "Annotation"), LAMBDA w :
              IF w.err # "ok"
              THEN Raise(w.err, ~st1.needs_refresh, w.st)
              ELSE Let(update_chained_annotations(w.st, annotation_id, ord, 1), LAMBDA c :
                   IF c.err # "ok"
                   THEN raise_from_cascade(st1, c, ~st1.needs_refresh)
                   ELSE Return({Tombstone(annotation_id, "Annotation")},
                               ~st1.needs_refresh, c.st)))))

\* [err, ret, fresh, st]
get_annotation(st, id) ==
    Let(get_annotation_es(st, id), LAMBDA g :
        [err |-> g.err, ret |-> IF g.err = "ok" THEN {g.doc} ELSE {},
         fresh |-> ~g.st.needs_refresh, st |-> g.st])

\* [err, ret, fresh, st]; a page holds every annotation of the index
get_annotations_es(st) ==
    Let(check_index_is_fresh(st), LAMBDA st1 :
        Return({st1.searchable["Annotation"][i] : i \in DOMAIN st1.searchable["Annotation"]},
               ~st1.needs_refresh, st1))

\* [err, ret, fresh, st]; the _source of every id es.mget finds
get_annotations_by_id_es(st, annotation_ids) ==
    Let(check_index_is_fresh(st), LAMBDA st1 :
        Return({st1.es["Annotation"][i] : i \in annotation_ids \cap DOMAIN st1.es["Annotation"]},
               ~st1.needs_refresh, st1))

\* [err, ret, fresh, st]
get_annotations_by_target_es(st, annotation_target, ord) ==
    Let(check_index_is_fresh(st), LAMBDA st1 :
    Let(get_from_index_by_target(st1, annotation_target.id, ord), LAMBDA annotations :
        Return({DelKey(annotations[k], "target_list") : k \in 1..Len(annotations)},
               ~st1.needs_refresh, st1)))

----------------------------------------------------------------------------
(* Collections                                                             *)

\* AnnotationCollection.to_json of a collection as created: no members yet
collection_to_json(collection_data) ==
    [id |-> collection_data.id, type |-> "AnnotationCollection",
     label |-> collection_data.label, items |-> <<>>, total |-> 0]

\* AnnotationCollection.update followed by to_json: the label is replaced
collection_update(collection, collection_json) ==
    [collection EXCEPT !.label = collection_json.label]

\* [err, ret, fresh, st]
create_collection_es(st, collection_data) ==
    IF ~should_not_exist(st, collection_data.id, collection_data.type)
    THEN Raise(AlreadyExists, ~st.needs_refresh, st)
    ELSE Let(add_to_index(st, collection_to_json(collection_data), collection_data.type),
             LAMBDA w :
         IF w.err # "ok"
         THEN Raise(w.err, ~st.needs_refresh, w.st)
         ELSE Return({collection_to_json(collection_data)}, ~st.needs_refresh,
                     set_index_needs_refresh(w.st)))

\* the membership test finding nothing
contains_never(list, x) == FALSE

Contains(list, x) == \E k \in 1..Len(list) : list[k] = x

AlreadyMember == "Collection already contains this annotation"
NotMember == "Collection does not contain this annotation"

\* [err, ret, fresh, st]
add_annotation_to_collection_es(st, annotation_id, collection_id) ==
    IF ~should_exist(st, annotation_id, "Annotation")
    THEN Raise(NotFound, ~st.needs_refresh, st)
    ELSE IF ~should_exist(st, collection_id, "AnnotationCollection")
    THEN Raise(NotFound, ~st.needs_refresh, st)
    ELSE Let(get_from_index(st, collection_id, "AnnotationCollection").doc, LAMBDA collection :
         IF Contains(collection.items, annotation_id)
         THEN Raise(AlreadyMember, ~st.needs_refresh, st)
         ELSE Let([collection EXCEPT !.items = Append(@, annotation_id),
                                     !.total = Len(collection.items) + 1], LAMBDA c2 :
              Let(update_in_index(st, c2, "AnnotationCollection"), LAMBDA w :
              IF w.err # "ok"
              THEN Raise(w.err, ~st.needs_refresh, w.st)
              ELSE Return({c2}, ~st.needs_refresh, set_index_needs_refresh(w.st)))))

\* [err, ret, fresh, st]
get_collection_es(st, collection_id) ==
    Let(check_index_is_fresh(st), LAMBDA st1 :
        IF ~should_exist(st1, collection_id, "AnnotationCollection")
        THEN Raise(NotFound, ~st1.needs_refresh, st1)
        ELSE Return({get_from_index(st1, collection_id, "AnnotationCollection").doc},
                    ~st1.needs_refresh, st1))

\* [err, ret, fresh, st]; a page holds every collection of the index
get_collections_es(st) ==
    Return({st.searchable["AnnotationCollection"][i] :
               i \in DOMAIN st.searchable["AnnotationCollection"]},
           ~st.needs_refresh, st)

\* [err, ret, fresh, st]
update_collection_es(st, collection_json) ==
    IF ~should_exist(st, collection_json.id, "AnnotationCollection")
    THEN Raise(NotFound, ~st.needs_refresh, st)
    ELSE Let(collection_update(
                 get_from_index(st, collection_json.id, "AnnotationCollection").doc,
                 collection_json), LAMBDA collection :
         Let(update_in_index(st, collection, "AnnotationCollection"), LAMBDA w :
         IF w.err # "ok"
         THEN Raise(w.err, ~st.needs_refresh, w.st)
         ELSE Return({collection}, ~st.needs_refresh, set_index_needs_refresh(w.st))))

\* list.pop() in the place of list.remove(x): the list without its last element
list_pop(list, x) == SubSeq(list, 1, Len(list) - 1)

RECURSIVE list_remove(_, _)
\* list.remove(x): the list without the first x
list_remove(list, x) ==
    IF list = <<>> THEN <<>>
    ELSE IF Head(list) = x THEN Tail(list)
    ELSE <<Head(list)>> \o list_remove(Tail(list), x)

\* [err, ret, fresh, st]
remove_annotation_from_collection_es(st, annotation_id, collection_id) ==
    Let(check_index_is_fresh(st), LAMBDA st1 :
    IF ~should_exist(st1, annotation_id, "Annotation")
    THEN Raise(NotFound, ~st1.needs_refresh, st1)
    ELSE IF ~should_exist(st1, collection_id, "AnnotationCollection")
    THEN Raise(NotFound, ~st1.needs_refresh, st1)
    ELSE Let(get_from_index(st1, collection_id, "AnnotationCollection").doc, LAMBDA collection :
         IF ~Contains(collection.items, annotation_id)
         THEN Raise(NotMember, ~st1.needs_refresh, st1)
         ELSE Let([collection EXCEPT !.items = list_remove(@, annotation_id),
                                     !.total = Len(collection.items) - 1], LAMBDA c2 :
              Let(update_in_index(st1, c2, "AnnotationCollection"), LAMBDA w :
              IF w.err # "ok"
              THEN Raise(w.err, ~st1.needs_refresh, w.st)
              ELSE Return({c2}, ~st1.needs_refresh, w.st)))))

\* [err, ret, fresh, st]
remove_collection_es(st, collection_id) ==
    Let(check_index_is_fresh(st), LAMBDA st1 :
    IF ~should_exist(st1, collection_id, "AnnotationCollection")
    THEN Raise(NotFound, ~st1.needs_refresh, st1)
    ELSE Let(remove_from_index(st1, collection_id, "AnnotationCollection"), LAMBDA rm :
         IF rm.err # "ok"
         THEN Raise(rm.err, ~st1.needs_refresh, rm.st)
         ELSE Let(add_to_index(rm.st, Tombstone(collection_id, "AnnotationCollection"),
                               "AnnotationCollection"), LAMBDA w :
              IF w.err # "ok"
              THEN Raise(w.err, ~st1.needs_refresh, w.st)
              ELSE Return({Tombstone(collection_id, "AnnotationCollection")},
                          ~st1.needs_refresh, w.st))))

----------------------------------------------------------------------------
(* Actions: one call of a store operation each.  An operation that raises  *)
(* keeps the writes and refreshes it made before raising.                  *)

State == [es |-> es, searchable |-> searchable, needs_refresh |-> needs_refresh]

\* ids are opaque: the ids new annotations are given are taken in IdOrder
FreshId(id) ==
    \A k \in 1..Len(IdOrder) :
        IdOrder[k] = id => \A j \in 1..(k - 1) : IdOrder[j] \in DOMAIN es["Annotation"]

\* a submitted annotation
Doc(id, targets) == [id |-> id, type |-> "Annotation", target |-> targets]

AddAnnotation ==
    \E id \in AnnoIds, targets \in TargetLists :
        /\ id \in DOMAIN es["Annotation"] \/ FreshId(id)
        /\ \E r \in {add_annotation_es(State, Doc(id, targets))} :
            /\ es' = r.st.es
            /\ searchable' = r.st.searchable
            /\ needs_refresh' = r.st.needs_refresh
            /\ failed' = (failed \/ r.err # "ok")
            /\ UNCHANGED <<document, outcome, now>>

UpdateAnnotation ==
    \E id \in AnnoIds, targets \in TargetLists, ord \in HitOrders :
        \E r \in {update_annotation_es(State, Doc(id, targets), ord, 1)} :
            /\ es' = r.st.es
            /\ searchable' = r.st.searchable
            /\ needs_refresh' = r.st.needs_refresh
            /\ failed' = (failed \/ r.err # "ok")
            /\ UNCHANGED <<document, outcome, now>>

RemoveAnnotation ==
    \E id \in AnnoIds, ord \in HitOrders :
        \E r \in {remove_annotation_es(State, id, ord)} :
            /\ es' = r.st.es
            /\ searchable' = r.st.searchable
            /\ needs_refresh' = r.st.needs_refresh
            /\ failed' = (failed \/ r.err # "ok")
            /\ UNCHANGED <<document, outcome, now>>

GetAnnotation ==
    \E id \in AnnoIds :
        \E r \in {get_annotation(State, id)} :
            /\ es' = r.st.es
            /\ searchable' = r.st.searchable
            /\ needs_refresh' = r.st.needs_refresh
            /\ failed' = (failed \/ r.err # "ok")
            /\ UNCHANGED <<document, outcome, now>>

GetAnnotations ==
    \E r \in {get_annotations_es(State)} :
        /\ es' = r.st.es
        /\ searchable' = r.st.searchable
        /\ needs_refresh' = r.st.needs_refresh
        /\ failed' = (failed \/ r.err # "ok")
        /\ UNCHANGED <<document, outcome, now>>

GetAnnotationsById ==
    \E ids \in SUBSET AnnoIds :
        \E r \in {get_annotations_by_id_es(State, ids)} :
            /\ es' = r.st.es
            /\ searchable' = r.st.searchable
            /\ needs_refresh' = r.st.needs_refresh
            /\ failed' = (failed \/ r.err # "ok")
            /\ UNCHANGED <<document, outcome, now>>

GetAnnotationsByTarget ==
    \E id \in AnnoIds \cup ExtIds, ord \in HitOrders :
        \E r \in {get_annotations_by_target_es(State, [id |-> id], ord)} :
            /\ es' = r.st.es
            /\ searchable' = r.st.searchable
            /\ needs_refresh' = r.st.needs_refresh
            /\ failed' = (failed \/ r.err # "ok")
            /\ UNCHANGED <<document, outcome, now>>

----------------------------------------------------------------------------

\* no document at hand, no call of the entity made
NoDocument == <<>>

NoOutcome == [op |-> "none"]

\* the index as configure_index leaves it
EmptyStore ==
    /\ es = [t \in {"Annotation", "AnnotationCollection"} |-> EmptyFn]
    /\ searchable = es
    /\ needs_refresh = FALSE
    /\ failed = FALSE
    /\ now = 1

Init ==
    /\ EmptyStore
    /\ document = NoDocument
    /\ outcome = NoOutcome

Next ==
    \/ AddAnnotation
    \/ UpdateAnnotation
    \/ RemoveAnnotation
    \/ GetAnnotation
    \/ GetAnnotations
    \/ GetAnnotationsById
    \/ GetAnnotationsByTarget

Spec == Init /\ [][Next]_vars

----------------------------------------------------------------------------
(* The store with its collections.  The annotations are those of two ids,  *)
(* without a target or with one target of type Annotation.                 *)

StoreIds == {IdOrder[k] : k \in 1..2}

StoreLists == {<<>>} \cup {<<[id |-> i, type |-> "Annotation"]>> : i \in StoreIds}

Labels == {"l1", "l2"}

CollectionData(id, label) == [id |-> id, type |-> "AnnotationCollection", label |-> label]

StoreAddAnnotation ==
    \E id \in StoreIds, targets \in StoreLists :
        /\ id \in DOMAIN es["Annotation"] \/ FreshId(id)
        /\ \E r \in {add_annotation_es(State, Doc(id, targets))} :
            /\ es' = r.st.es
            /\ searchable' = r.st.searchable
            /\ needs_refresh' = r.st.needs_refresh
            /\ failed' = (failed \/ r.err # "ok")
            /\ UNCHANGED <<document, outcome, now>>

StoreUpdateAnnotation ==
    \E id \in StoreIds, targets \in StoreLists, ord \in HitOrders :
        \E r \in {update_annotation_es(State, Doc(id, targets), ord, 1)} :
            /\ es' = r.st.es
            /\ searchable' = r.st.searchable
            /\ needs_refresh' = r.st.needs_refresh
            /\ failed' = (failed \/ r.err # "ok")
            /\ UNCHANGED <<document, outcome, now>>

StoreRemoveAnnotation ==
    \E id \in StoreIds, ord \in HitOrders :
        \E r \in {remove_annotation_es(State, id, ord)} :
            /\ es' = r.st.es
            /\ searchable' = r.st.searchable
            /\ needs_refresh' = r.st.needs_refresh
            /\ failed' = (failed \/ r.err # "ok")
            /\ UNCHANGED <<document, outcome, now>>

CreateCollection ==
    \E id \in CollIds, label \in Labels :
        \E r \in {create_collection_es(State, CollectionData(id, label))} :
            /\ es' = r.st.es
            /\ searchable' = r.st.searchable
            /\ needs_refresh' = r.st.needs_refresh
            /\ failed' = (failed \/ r.err # "ok")
            /\ UNCHANGED <<document, outcome, now>>

UpdateCollection ==
    \E id \in CollIds, label \in Labels :
        \E r \in {update_collection_es(State, CollectionData(id, label))} :
            /\ es' = r.st.es
            /\ searchable' = r.st.searchable
            /\ needs_refresh' = r.st.needs_refresh
            /\ failed' = (failed \/ r.err # "ok")
            /\ UNCHANGED <<document, outcome, now>>

AddAnnotationToCollection ==
    \E annotation_id \in StoreIds, collection_id \in CollIds :
        /\ \A c \in DOMAIN es["AnnotationCollection"] :
               "items" \in DOMAIN es["AnnotationCollection"][c]
                   => Len(es["AnnotationCollection"][c].items) < MaxItems
        /\ \E r \in {add_annotation_to_collection_es(State, annotation_id, collection_id)} :
            /\ es' = r.st.es
            /\ searchable' = r.st.searchable
            /\ needs_refresh' = r.st.needs_refresh
            /\ failed' = (failed \/ r.err # "ok")
            /\ UNCHANGED <<document, outcome, now>>

RemoveAnnotationFromCollection ==
    \E annotation_id \in StoreIds, collection_id \in CollIds :
        \E r \in {remove_annotation_from_collection_es(State, annotation_id, collection_id)} :
            /\ es' = r.st.es
            /\ searchable' = r.st.searchable
            /\ needs_refresh' = r.st.needs_refresh
            /\ failed' = (failed \/ r.err # "ok")
            /\ UNCHANGED <<document, outcome, now>>

RemoveCollection ==
    \E id \in CollIds :
        \E r \in {remove_collection_es(State, id)} :
            /\ es' = r.st.es
            /\ searchable' = r.st.searchable
            /\ needs_refresh' = r.st.needs_refresh
            /\ failed' = (failed \/ r.err # "ok")
            /\ UNCHANGED <<document, outcome, now>>

GetCollection ==
    \E id \in CollIds :
        \E r \in {get_collection_es(State, id)} :
            /\ es' = r.st.es
            /\ searchable' = r.st.searchable
            /\ needs_refresh' = r.st.needs_refresh
            /\ failed' = (failed \/ r.err # "ok")
            /\ UNCHANGED <<document, outcome, now>>

GetCollections ==
    \E r \in {get_collections_es(State)} :
        /\ es' = r.st.es
        /\ searchable' = r.st.searchable
        /\ needs_refresh' = r.st.needs_refresh
        /\ failed' = (failed \/ r.err # "ok")
        /\ UNCHANGED <<document, outcome, now>>

NextStore ==
    \/ StoreAddAnnotation
    \/ StoreUpdateAnnotation
    \/ StoreRemoveAnnotation
    \/ GetAnnotation
    \/ GetAnnotations
    \/ GetAnnotationsById
    \/ GetAnnotationsByTarget
    \/ CreateCollection
    \/ UpdateCollection
    \/ AddAnnotationToCollection
    \/ RemoveAnnotationFromCollection
    \/ RemoveCollection
    \/ GetCollection
    \/ GetCollections

SpecStore == Init /\ [][NextStore]_vars

----------------------------------------------------------------------------
(* The Annotation entity on its own: document is the target list of an     *)
(* annotation, outcome what the last call on it returned.                  *)

Subresources ==
    {[id |-> "r1", type |-> "Part"],
     [id |-> "r1", type |-> "Part", subresource |-> [id |-> "r2", type |-> "Part"]]}

Selectors ==
    {[type |-> "SubresourceSelector", value |-> [subresource |-> sub]] : sub \in Subresources}
    \cup {[type |-> "NestedPIDSelector", value |-> pids] :
              pids \in {<<[id |-> "p1", type |-> "PID"]>>,
                        <<[id |-> "p1", type |-> "PID"], [id |-> "p2", type |-> "PID"]>>}}
    \cup {[type |-> "FragmentSelector", value |-> [fragment |-> "f"]]}

SelectorValues ==
    {NoSelector}
    \cup {OneSelector(sel) : sel \in Selectors}
    \cup {SelectorList(sels) : sels \in UNION {[1..n -> Selectors] : n \in 0..MaxSelectors}}

\* targets as a caller may submit them, the malformed ones included
EntityTargets ==
    {StrTarget("s"), [id |-> "s", type |-> "Text"], [id |-> "s"],
     [source |-> "s", type |-> "Text"], [type |-> "Text"],
     [source |-> "s", selector |-> NoSelector]}
    \cup {[source |-> "s", type |-> "Text", selector |-> sel] : sel \in SelectorValues}

\* target lists of one target, and of two without a selector list
EntityDocuments ==
    {<<>>}
    \cup {<<t>> : t \in EntityTargets}
    \cup {<<t, u>> : t, u \in {v \in EntityTargets :
                                  "selector" \in DOMAIN v => v.selector.kind # "list"}}

\* the lengths of the value lists of the NestedPIDSelectors of a target list
ValueLengths(targets) ==
    UNION {{Len(selector_list(targets[k].selector)[j].value) :
               j \in {i \in 1..Len(selector_list(targets[k].selector)) :
                          selector_list(targets[k].selector)[i].type = "NestedPIDSelector"}} :
           k \in {i \in 1..Len(targets) : "selector" \in DOMAIN targets[i]}}

GetTargetsInfo ==
    \E r \in {get_targets_info(document)} :
        /\ \A n \in ValueLengths(r.targets) : n <= MaxValue
        /\ document' = r.targets
        /\ outcome' = [op |-> "get_targets_info", err |-> r.err, list |-> r.info]
        /\ UNCHANGED <<es, searchable, needs_refresh, failed, now>>

GetTargetIds ==
    \E r \in {get_target_ids(document)} :
        /\ outcome' = [op |-> "get_target_ids", err |-> r.err, list |-> r.ids]
        /\ UNCHANGED <<es, searchable, needs_refresh, failed, document, now>>

InitEntity ==
    /\ EmptyStore
    /\ document \in EntityDocuments
    /\ outcome = NoOutcome

NextEntity ==
    \/ GetTargetsInfo
    \/ GetTargetIds

SpecEntity == InitEntity /\ [][NextEntity]_vars

----------------------------------------------------------------------------
(* Validation.  A JSON string is [string |-> s], a JSON list               *)
(* [list |-> <<v1, ...>>], a JSON number [number |-> n], a JSON object a    *)
(* record of its keys.                                                     *)

JList(values) == [list |-> values]

is_dict(value) == DOMAIN value \cap {"string", "list", "number"} = {}

\* as_list
as_list(value) == IF "list" \in DOMAIN value THEN value.list ELSE <<value>>

\* value in list
In(value, list) == \E k \in 1..Len(list) : list[k] = value

Passed == [kind |-> "ok"]

\* raise AnnotationError(message): status_code is 400
AnnotationError(message) == [kind |-> "AnnotationError", status |-> 400, message |-> message]

\* an exception that is no AnnotationError
OtherError(name) == [kind |-> name]

AnnoContext == "http://www.w3.org/ns/anno.jsonld"

\* validate_generic
validate_generic(annotation) ==
    IF ~is_dict(annotation)
    THEN AnnotationError("annotation MUST be valid JSON")
    ELSE IF "@context" \notin DOMAIN annotation
    THEN AnnotationError("annotation MUST have a @context")
    ELSE IF annotation["@context"] # StrTarget(AnnoContext)
    THEN AnnotationError("annotation @context MUST include http://www.w3.org/ns/anno.jsonld")
    ELSE IF "type" \notin DOMAIN annotation
    THEN AnnotationError("annotation MUST have a type")
    ELSE Passed

\* the strings rfc3987's parse accepts under the rule IRI
IRIs == {"urn:a", "urn:b"}

NoneValue == [none |-> TRUE]

\* parse_iri(target_id, rule="IRI") inside the try of validate_annotation:
\* ValueError, which the except clause turns into an AnnotationError, for a
\* string that is no IRI; TypeError, which nothing catches, for None
parse_iri(target_id) ==
    IF ~IsStr(target_id) THEN OtherError("TypeError")
    ELSE IF target_id.string \in IRIs THEN Passed
    ELSE AnnotationError("annotation target id MUST be an IRI")

\* the target_id validate_annotation takes from a target that is a str or a dict
target_id_of(target) ==
    IF IsStr(target) THEN target
    ELSE IF "id" \in DOMAIN target THEN StrTarget(target.id)
    ELSE IF "source" \in DOMAIN target THEN StrTarget(target.source)
    ELSE NoneValue

RECURSIVE validate_targets(_, _)
\* the loop of validate_annotation from the k-th target on
validate_targets(targets, k) ==
    IF k > Len(targets) THEN Passed
    ELSE IF ~IsStr(targets[k]) /\ ~is_dict(targets[k])
    THEN AnnotationError("External annotation target MUST have an IRI identifier")
    ELSE Let(parse_iri(target_id_of(targets[k])), LAMBDA p :
         IF p.kind # "ok" THEN p ELSE validate_targets(targets, k + 1))

\* validate_annotation
validate_annotation(annotation) ==
    IF ~In(StrTarget("Annotation"), as_list(annotation.type))
    THEN AnnotationError("annotation type MUST include Annotation")
    ELSE IF "target" \notin DOMAIN annotation
    THEN AnnotationError("annotation MUST have at least one target")
    ELSE validate_targets(as_list(annotation.target), 1)

\* validate_annotation_page
validate_annotation_page(annotation_page) ==
    IF ~In(StrTarget("AnnotationPage"), as_list(annotation_page.type))
    THEN AnnotationError("annotation type property MUST include AnnotationPage")
    ELSE IF "items" \notin DOMAIN annotation_page
    THEN AnnotationError("annotation page MUST have an items property")
    ELSE IF "list" \notin DOMAIN annotation_page.items \/ annotation_page.items.list = <<>>
    THEN AnnotationError("annotation page items property MUST be a list with at least one annotation")
    ELSE Passed

\* validate_annotation_collection
validate_annotation_collection(annotation_collection) ==
    IF ~In(StrTarget("AnnotationCollection"), as_list(annotation_collection.type))
    THEN AnnotationError("annotation type property MUST include AnnotationCollection")
    ELSE IF "label" \notin DOMAIN annotation_collection
    THEN AnnotationError("annotation collection MUST have an label property")
    ELSE IF ~IsStr(annotation_collection.label)
    THEN AnnotationError("annotation collection label property MUST be a string")
    ELSE IF "total" \in DOMAIN annotation_collection
              /\ "first" \notin DOMAIN annotation_collection
    THEN AnnotationError("Non-empty collection MUST have first property")
    ELSE IF "total" \in DOMAIN annotation_collection
              /\ "last" \notin DOMAIN annotation_collection
    THEN AnnotationError("Non-empty collection MUST have last property")
    ELSE Passed

\* WebAnnotationValidator.accepted_types
accepted_types == {"Annotation", "AnnotationCollection", "AnnotationPage"}

\* the list comprehension of has_valid_type
accepted_in(types) ==
    SelectSeq(types, LAMBDA t : IsStr(t) /\ t.string \in accepted_types)

\* has_valid_type taking the first accepted type of several
has_valid_type_first(annotation) ==
    IF accepted_in(as_list(annotation.type)) = <<>>
    THEN [err |-> AnnotationError("annotation type MUST have one of the annotation types"),
          type |-> ""]
    ELSE [err |-> Passed, type |-> accepted_in(as_list(annotation.type))[1].string]

\* WebAnnotationValidator.has_valid_type: [err, type]
has_valid_type(annotation) ==
    IF Len(accepted_in(as_list(annotation.type))) > 1
    THEN [err |-> AnnotationError("annotation cannot have multiple annotation types"),
          type |-> ""]
    ELSE IF accepted_in(as_list(annotation.type)) = <<>>
    THEN [err |-> AnnotationError("annotation type MUST have one of the annotation types"),
          type |-> ""]
    ELSE [err |-> Passed, type |-> accepted_in(as_list(annotation.type))[1].string]

\* WebAnnotationValidator.validate_type with annotation_type None
validate_type(annotation) ==
    Let(has_valid_type(annotation), LAMBDA h :
        IF h.err.kind # "ok" THEN h.err
        ELSE IF h.type = "Annotation" THEN validate_annotation(annotation)
        ELSE IF h.type = "AnnotationPage" THEN validate_annotation_page(annotation)
        ELSE validate_annotation_collection(annotation))

\* WebAnnotationValidator.validate
validate(annotation) ==
    IF validate_generic(annotation).kind # "ok"
    THEN validate_generic(annotation)
    ELSE validate_type(annotation)

\* bound on the length of a type list and of a target list
MaxTypes == 2

\* a key the document does not have
Absent == [absent |-> TRUE]

TypeNames == {StrTarget(t) : t \in accepted_types \cup {"Other"}}

TypeValues ==
    TypeNames \cup {JList(l) : l \in UNION {[1..n -> TypeNames] : n \in 0..MaxTypes}}

ContextValues ==
    {StrTarget(AnnoContext), StrTarget("http://example.org/context"),
     JList(<<StrTarget(AnnoContext)>>)}

ValidationTargets ==
    {StrTarget("urn:a"), StrTarget("not an iri"), [number |-> 1],
     [id |-> "urn:a", type |-> "Text"], [id |-> "not an iri", type |-> "Text"],
     [source |-> "urn:b", type |-> "Text"], [source |-> "not an iri", type |-> "Text"],
     [type |-> "Text"]}

TargetValues ==
    ValidationTargets
    \cup {JList(l) : l \in UNION {[1..n -> ValidationTargets] : n \in 0..MaxTypes}}

\* label and items of a collection or a page
OtherKeys ==
    {[label |-> Absent, items |-> Absent],
     [label |-> StrTarget("l"), items |-> Absent],
     [label |-> Absent, items |-> JList(<<StrTarget("urn:a")>>)]}

\* the JSON object with the keys whose value is not Absent
Object(values) == [k \in {j \in DOMAIN values : values[j] # Absent} |-> values[k]]

\* the documents submitted for validation
ValidationDocuments ==
    {[number |-> 1]}
    \cup {Object([j \in {"@context", "type", "target", "label", "items"} |->
                     IF j = "@context" THEN c
                     ELSE IF j = "type" THEN t
                     ELSE IF j = "target" THEN g
                     ELSE IF j = "label" THEN o.label
                     ELSE o.items]) :
            c \in ContextValues \cup {Absent}, t \in TypeValues \cup {Absent},
            g \in TargetValues \cup {Absent}, o \in OtherKeys}

Validate ==
    /\ outcome' = [op |-> "validate", result |-> validate(document)]
    /\ UNCHANGED <<es, searchable, needs_refresh, failed, document, now>>

InitValidate ==
    /\ EmptyStore
    /\ document \in ValidationDocuments
    /\ outcome = NoOutcome

NextValidate == Validate

SpecValidate == InitValidate /\ [][NextValidate]_vars

----------------------------------------------------------------------------
(* Timestamps and permissions: the store with a clock, whose documents     *)
(* carry created, modified and permissions.                                *)

\* the clock readings the model follows
MaxClock == 5

\* the state of the store together with the reading of the clock
TimedState ==
    [es |-> es, searchable |-> searchable, needs_refresh |-> needs_refresh, now |-> now]

FieldLists == StoreLists \cup {<<StrTarget(i)>> : i \in ExtIds}

\* what a client adds to a document: a created of its own, permissions
FieldSets ==
    {EmptyFn, [created |-> 0], [permissions |-> "private"],
     [created |-> 0, permissions |-> "private"]}

\* a submitted annotation with these fields
FieldDoc(id, targets, fields) ==
    [k \in DOMAIN Doc(id, targets) \cup DOMAIN fields |->
        IF k \in DOMAIN fields THEN fields[k] ELSE Doc(id, targets)[k]]

FieldsAddAnnotation ==
    \E id \in StoreIds, targets \in FieldLists, fields \in FieldSets :
        /\ now < MaxClock
        /\ id \in DOMAIN es["Annotation"] \/ FreshId(id)
        /\ \E r \in {add_annotation_es(TimedState, FieldDoc(id, targets, fields))} :
            /\ es' = r.st.es
            /\ searchable' = r.st.searchable
            /\ needs_refresh' = r.st.needs_refresh
            /\ failed' = (failed \/ r.err # "ok")
            /\ now' = now + 1
            /\ UNCHANGED <<document, outcome>>

FieldsUpdateAnnotation ==
    \E id \in StoreIds, targets \in FieldLists, fields \in FieldSets, ord \in HitOrders :
        /\ now < MaxClock
        /\ \E r \in {update_annotation_es(TimedState, FieldDoc(id, targets, fields), ord, 1)} :
            /\ es' = r.st.es
            /\ searchable' = r.st.searchable
            /\ needs_refresh' = r.st.needs_refresh
            /\ failed' = (failed \/ r.err # "ok")
            /\ now' = now + 1
            /\ UNCHANGED <<document, outcome>>

NextFields ==
    \/ FieldsAddAnnotation
    \/ FieldsUpdateAnnotation

SpecFields == Init /\ [][NextFields]_vars

----------------------------------------------------------------------------
(* Two processes, each with an AnnotationStore of its own on the one index. *)
(* outcome[p] holds the position of process p in update_annotation_es, its  *)
(* needs_refresh and its local variables; document[p] the document it is    *)
(* updating with.  Annotations are added while no update is under way; each *)
(* process then runs one update_annotation_es, a step at a time.           *)

Procs == {"p1", "p2"}

Idle == [pc |-> "idle", needs_refresh |-> FALSE, old_target_list |-> <<>>,
         new_target_list |-> <<>>, err |-> "none"]

\* the index as process p has it
ProcState(p) ==
    [es |-> es, searchable |-> searchable, needs_refresh |-> outcome[p].needs_refresh]

\* process p leaves update_annotation_es with this error or "ok"
Returned(p, err, flag) ==
    [outcome EXCEPT ![p].pc = "done", ![p].err = err, ![p].needs_refresh = flag]

RaceAdd(p) ==
    \E id \in StoreIds, targets \in FieldLists :
        /\ \A q \in Procs : outcome[q].pc = "idle"
        /\ id \in DOMAIN es["Annotation"] \/ FreshId(id)
        /\ \E r \in {add_annotation_es(ProcState(p), Doc(id, targets))} :
            /\ es' = r.st.es
            /\ searchable' = r.st.searchable
            /\ outcome' = [outcome EXCEPT ![p].needs_refresh = r.st.needs_refresh]
            /\ UNCHANGED <<needs_refresh, failed, document, now>>

\* annotation_json = get_from_index(...); old_target_list = copy of its target_list
RaceRead(p) ==
    \E id \in StoreIds, targets \in FieldLists :
        /\ outcome[p].pc = "idle"
        /\ document' = [document EXCEPT ![p] = Doc(id, targets)]
        /\ \E g \in {get_from_index(ProcState(p), id, "Annotation")} :
               outcome' = IF g.err # "ok"
                          THEN Returned(p, g.err, outcome[p].needs_refresh)
                          ELSE [outcome EXCEPT ![p].pc = "read",
                                               ![p].old_target_list = g.doc.target_list]
        /\ UNCHANGED <<es, searchable, needs_refresh, failed, now>>

\* annotation.update(...); new_target_list = get_target_list(annotation)
RaceGetTargetList(p) ==
    /\ outcome[p].pc = "read"
    /\ \E tl \in {get_target_list(ProcState(p), document[p].id, document[p].target, 1)} :
        /\ es' = tl.st.es
        /\ searchable' = tl.st.searchable
        /\ outcome' = IF tl.err # "ok"
                      THEN Returned(p, tl.err, tl.st.needs_refresh)
                      ELSE [outcome EXCEPT ![p].pc = "computed",
                                           ![p].new_target_list = tl.list,
                                           ![p].needs_refresh = tl.st.needs_refresh]
    /\ UNCHANGED <<needs_refresh, failed, document, now>>

\* update_in_index(annotation.data, ...)
RaceWrite(p) ==
    /\ outcome[p].pc = "computed"
    /\ \E w \in {update_in_index(
                     ProcState(p),
                     SetKey(annotation_update(ProcState(p), document[p]),
                            "target_list", outcome[p].new_target_list),
                     document[p].type)} :
        /\ es' = w.st.es
        /\ searchable' = w.st.searchable
        /\ outcome' = IF w.err # "ok"
                      THEN Returned(p, w.err, outcome[p].needs_refresh)
                      ELSE [outcome EXCEPT ![p].pc = "written"]
    /\ UNCHANGED <<needs_refresh, failed, document, now>>

\* the rest of update_annotation_es: the cascade if target_list_changed,
\* set_index_needs_refresh, return
RaceCascade(p) ==
    \E ord \in HitOrders :
        /\ outcome[p].pc = "written"
        /\ \E c \in {IF target_list_changed(outcome[p].new_target_list,
                                            outcome[p].old_target_list)
                     THEN update_chained_annotations(ProcState(p), document[p].id, ord, 1)
                     ELSE [err |-> "ok", st |-> ProcState(p)]} :
            /\ es' = c.st.es
            /\ searchable' = c.st.searchable
            /\ outcome' = IF c.err # "ok"
                          THEN Returned(p, c.err, c.st.needs_refresh)
                          ELSE Returned(p, "ok", TRUE)
        /\ UNCHANGED <<needs_refresh, failed, document, now>>

InitRace ==
    /\ EmptyStore
    /\ document = [p \in Procs |-> NoDocument]
    /\ outcome = [p \in Procs |-> Idle]

NextRace ==
    \E p \in Procs :
        \/ RaceAdd(p)
        \/ RaceRead(p)
        \/ RaceGetTargetList(p)
        \/ RaceWrite(p)
        \/ RaceCascade(p)

SpecRace == InitRace /\ [][NextRace]_vars

----------------------------------------------------------------------------
(* Properties                                                              *)

Stored == es["Annotation"]

ActiveIds == {i \in DOMAIN Stored : ~is_deleted(State, i, "Annotation")}

TombstonedIds == {i \in DOMAIN Stored : is_deleted(State, i, "Annotation")}

\* what get_target_list computes for a stored annotation from the stored documents
Closure(i) == get_target_list(State, i, Stored[i].target, 1)

\* C1 (as claimed): while every operation so far has completed successfully,
\* the stored target_list of every non-tombstoned annotation equals the list
\* get_target_list computes for it from the stored documents.
C1_StoredListIsClosure ==
    ~failed => \A i \in ActiveIds :
                   /\ Closure(i).err = "ok"
                   /\ Stored[i].target_list = Closure(i).list

\* C1, ids only: while every operation so far has completed successfully,
\* the stored target_list of every non-tombstoned annotation holds the same
\* set of ids as the list get_target_list computes for it (target_list_changed
\* compares ids, so a change of a descriptor's type alone is not passed on).
C1_StoredIdsAreClosureIds ==
    ~failed => \A i \in ActiveIds :
                   /\ Closure(i).err = "ok"
                   /\ IdSet(Stored[i].target_list) = IdSet(Closure(i).list)

----------------------------------------------------------------------------

\* C2 (as claimed): no stored annotation's target_list holds a descriptor
\* with the annotation's own id.
C2_NoOwnIdInTargetList ==
    \A i \in ActiveIds : i \notin IdSet(Stored[i].target_list)

----------------------------------------------------------------------------

\* an update in every order of hits, an add, a remove of id i
UpdateResults(i) ==
    {update_annotation_es(State, Doc(i, targets), ord, 1) :
        targets \in TargetLists, ord \in HitOrders}

AddResults(i) == {add_annotation_es(State, Doc(i, targets)) : targets \in TargetLists}

RemoveResults(i) == {remove_annotation_es(State, i, ord) : ord \in HitOrders}

\* C3: a tombstone is exactly {id, type, status: deleted}, no step changes
\* it, and every add, update and remove of its id raises and leaves the
\* stored documents as they are.
C3_TombstoneIsTerminal ==
    /\ [](\A i \in TombstonedIds :
            /\ Stored[i] = [id |-> i, type |-> "Annotation", status |-> "deleted"]
            /\ \A r \in AddResults(i) \cup UpdateResults(i) \cup RemoveResults(i) :
                   r.err # "ok" /\ r.st.es = es)
    /\ [][\A i \in TombstonedIds :
            i \in DOMAIN es'["Annotation"] /\ es'["Annotation"][i] = Stored[i]]_vars

\* a tombstone on which an add, an update and a remove have been tried
C3_Witness ==
    /\ failed
    /\ \E i \in TombstonedIds :
        /\ \E r \in AddResults(i) : r.err = AlreadyExists
        /\ \E r \in UpdateResults(i) : r.err = NotFound
        /\ \E r \in RemoveResults(i) : r.err = NotFound
    /\ ActiveIds # {}

\* C4: add_annotation_es of a document whose id is in the store, active or
\* tombstoned, raises "already exists" and writes nothing.
C4_AddExistingFails ==
    \A i \in DOMAIN Stored : \A r \in AddResults(i) :
        r.err = AlreadyExists /\ r.st.es = es

\* an active and a tombstoned id, and an add that has been refused
C4_Witness ==
    /\ failed
    /\ \E i \in ActiveIds : \E r \in AddResults(i) : r.err = AlreadyExists
    /\ \E i \in TombstonedIds : \E r \in AddResults(i) : r.err = AlreadyExists

----------------------------------------------------------------------------

SelfDescriptor(i) == [id |-> i, type |-> "Annotation"]

\* the target lists in which a target of type Annotation has the id i
SelfTargeting(i) ==
    {targets \in ProbeLists : \E k \in 1..Len(targets) : targets[k] = SelfDescriptor(i)}

\* ... and no target of type Annotation comes before it
SelfTargetingFirst(i) ==
    {targets \in SelfTargeting(i) :
        \E k \in 1..Len(targets) :
            /\ targets[k] = SelfDescriptor(i)
            /\ \A j \in 1..(k - 1) : IsStr(targets[j]) \/ ~is_annotation(targets[j])}

----------------------------------------------------------------------------

\* the descriptors of the direct targets of a stored annotation
DirectDescriptors(view, i) ==
    {get_targets_info(view[i].target).info[k] :
        k \in 1..Len(get_targets_info(view[i].target).info)}

RECURSIVE Expanded(_, _)
\* D with the direct targets of every non-tombstoned annotation that a
\* descriptor of type Annotation in D names, and so on
Expanded(view, D) ==
    Let(D \cup UNION {DirectDescriptors(view, d.id) :
                        d \in {e \in D : /\ is_annotation(e)
                                         /\ e.id \in DOMAIN view
                                         /\ ~has_deleted_status(view[e.id])}},
        LAMBDA D2 : IF D2 = D THEN D ELSE Expanded(view, D2))

\* the descriptors annotation i reaches, directly or through annotations
Reaches(view, i) == Expanded(view, DirectDescriptors(view, i))

ActiveIn(view) == {i \in DOMAIN view : ~has_deleted_status(view[i])}

----------------------------------------------------------------------------

AllResults ==
    UNION {AddResults(i) \cup UpdateResults(i) \cup RemoveResults(i)
               \cup {get_annotation(State, i)} : i \in AnnoIds}
    \cup {get_annotations_es(State)}
    \cup {get_annotations_by_id_es(State, ids) : ids \in SUBSET AnnoIds}
    \cup {get_annotations_by_target_es(State, [id |-> t], ord) :
              t \in AnnoIds \cup ExtIds, ord \in HitOrders}

\* C8 (as claimed): no document that add_annotation_es, update_annotation_es,
\* get_annotation_es, get_annotations_es, get_annotations_by_id_es,
\* get_annotations_by_target_es or remove_annotation_es returns has the
\* field target_list.
C8_TargetListNeverReturned ==
    \A r \in AllResults : \A d \in r.ret : "target_list" \notin DOMAIN d

----------------------------------------------------------------------------

\* the writing operations of the store on the current state
WriteResults ==
    UNION {{add_annotation_es(State, Doc(i, targets)) : targets \in StoreLists}
           \cup {update_annotation_es(State, Doc(i, targets), ord, 1) :
                     targets \in StoreLists, ord \in HitOrders}
           \cup RemoveResults(i)
           \cup UNION {{add_annotation_to_collection_es(State, i, c),
                        remove_annotation_from_collection_es(State, i, c)} :
                          c \in CollIds} : i \in StoreIds}
    \cup UNION {{create_collection_es(State, CollectionData(c, l)),
                 update_collection_es(State, CollectionData(c, l)),
                 remove_collection_es(State, c)} : c \in CollIds, l \in Labels}

\* C9 (as claimed): when an operation that has written to the index returns,
\* needs_refresh is true, unless the operation refreshed the index after its
\* last write, so that searches see all it wrote.
C9_WriteSetsNeedsRefresh ==
    \A r \in WriteResults :
        (r.err = "ok" /\ r.st.es # es) =>
            r.st.needs_refresh \/ r.st.searchable = r.st.es

----------------------------------------------------------------------------

\* the reading operations of the store on the current state
ReadResults ==
    UNION {{get_annotation(State, i)}
           \cup {update_annotation_es(State, Doc(i, targets), ord, 1) :
                     targets \in StoreLists, ord \in HitOrders}
           \cup {add_annotation_to_collection_es(State, i, c) : c \in CollIds} :
               i \in StoreIds}
    \cup {get_annotations_es(State), get_collections_es(State)}
    \cup {get_annotations_by_id_es(State, ids) : ids \in SUBSET StoreIds}
    \cup {get_annotations_by_target_es(State, [id |-> t], ord) :
              t \in StoreIds, ord \in HitOrders}
    \cup {get_collection_es(State, c) : c \in CollIds}

\* C10 (as claimed): every read and search operation, the reads inside
\* update_annotation_es and add_annotation_to_collection_es among them, does
\* its first read with needs_refresh false, the index refreshed if it was true.
C10_ReadsAfterFreshnessCheck ==
    \A r \in ReadResults : r.fresh

----------------------------------------------------------------------------

StoredCollections == es["AnnotationCollection"]

ActiveCollections ==
    {c \in DOMAIN StoredCollections : ~has_deleted_status(StoredCollections[c])}

\* list without its k-th element
WithoutIndex(list, k) == SubSeq(list, 1, k - 1) \o SubSeq(list, k + 1, Len(list))

\* C11: a successful add_annotation_to_collection_es stores the collection
\* with the given id appended to items, a successful
\* remove_annotation_from_collection_es stores it with one occurrence of the
\* id taken out of items, and both store total = length of items.
C11_TotalIsLengthOfItems ==
    \A c \in ActiveCollections : \A i \in StoreIds :
        /\ \E r \in {add_annotation_to_collection_es(State, i, c)} :
               r.err = "ok" =>
                   \E new \in {r.st.es["AnnotationCollection"][c]} :
                       /\ new.items = Append(StoredCollections[c].items, i)
                       /\ new.total = Len(new.items)
                       /\ r.ret = {new}
        /\ \E r \in {remove_annotation_from_collection_es(State, i, c)} :
               r.err = "ok" =>
                   \E new \in {r.st.es["AnnotationCollection"][c]} :
                       /\ \E k \in 1..Len(StoredCollections[c].items) :
                              /\ StoredCollections[c].items[k] = i
                              /\ new.items = WithoutIndex(StoredCollections[c].items, k)
                       /\ new.total = Len(new.items)
                       /\ r.ret = {new}

\* a collection of two members of which the first is removed, reached by
\* two successful adds
C11_Witness ==
    \E c \in ActiveCollections :
        /\ Len(StoredCollections[c].items) = 2
        /\ StoredCollections[c].total = 2
        /\ \E r \in {remove_annotation_from_collection_es(
                         State, StoredCollections[c].items[1], c)} :
               /\ r.err = "ok"
               /\ r.st.es["AnnotationCollection"][c].items
                      = <<StoredCollections[c].items[2]>>
               /\ r.st.es["AnnotationCollection"][c].total = 1

----------------------------------------------------------------------------

\* x is an element of the list
IsMember(list, x) == x \in {list[k] : k \in 1..Len(list)}

\* C12: add_annotation_to_collection_es raises when the annotation or the
\* collection is absent or tombstoned (the 404 error) and when the id is in
\* items already; remove_annotation_from_collection_es raises when the id is
\* not in items; whenever either raises, the stored documents are unchanged.
C12_MemberErrorsWriteNothing ==
    \A c \in CollIds : \A i \in AnnoIds :
        /\ \E r \in {add_annotation_to_collection_es(State, i, c)} :
               /\ (i \notin ActiveIds \/ c \notin ActiveCollections) => r.err = NotFound
               /\ (i \in ActiveIds /\ c \in ActiveCollections
                     /\ IsMember(StoredCollections[c].items, i)) => r.err = AlreadyMember
               /\ r.err # "ok" => r.st.es = es
        /\ \E r \in {remove_annotation_from_collection_es(State, i, c)} :
               /\ (c \in ActiveCollections /\ ~IsMember(StoredCollections[c].items, i))
                      => r.err # "ok"
               /\ (i \in ActiveIds /\ c \in ActiveCollections
                     /\ ~IsMember(StoredCollections[c].items, i)) => r.err = NotMember
               /\ r.err # "ok" => r.st.es = es

\* a collection with a member, a tombstoned annotation and an id not in the
\* store: the add of each is refused, and so is the removal of a non-member
C12_Witness ==
    /\ failed
    /\ \E c \in ActiveCollections :
        /\ \E i \in ActiveIds :
               /\ IsMember(StoredCollections[c].items, i)
               /\ add_annotation_to_collection_es(State, i, c).err = AlreadyMember
        /\ \E i \in TombstonedIds :
               /\ add_annotation_to_collection_es(State, i, c).err = NotFound
               /\ remove_annotation_from_collection_es(State, i, c).err # "ok"
        /\ \E i \in AnnoIds \ DOMAIN Stored :
               /\ add_annotation_to_collection_es(State, i, c).err = NotFound
               /\ remove_annotation_from_collection_es(State, i, c).err # "ok"

----------------------------------------------------------------------------

\* C13 (as claimed, for get_targets_info): a call of get_targets_info leaves
\* the annotation's targets, selector values included, as they were, and a
\* second call returns the sequence of descriptors the first returned.
C13_TargetsInfoIsIdempotent ==
    \E r \in {get_targets_info(document)} :
        /\ r.targets = document
        /\ r.err = "ok" => get_targets_info(r.targets).info = r.info

----------------------------------------------------------------------------

\* the k-th nesting level of a subresource, the outer one being the first
RECURSIVE Level(_, _)
Level(subresource, k) ==
    IF k = 1 THEN subresource ELSE Level(subresource.subresource, k - 1)

RECURSIVE Depth(_)
Depth(subresource) ==
    IF "subresource" \in DOMAIN subresource THEN 1 + Depth(subresource.subresource) ELSE 1

\* one {id, type} descriptor per nesting level, outer to inner
Levels(subresource) ==
    [k \in 1..Depth(subresource) |->
        [id |-> Level(subresource, k).id, type |-> Level(subresource, k).type]]

RECURSIVE Accumulated(_, _, _)
\* what the first n selectors of sels make of the base descriptor
Accumulated(base, sels, n) ==
    IF n = 0 THEN <<base>>
    ELSE IF sels[n].type = "NestedPIDSelector" THEN sels[n].value
    ELSE IF sels[n].type = "SubresourceSelector"
    THEN Accumulated(base, sels, n - 1) \o Levels(sels[n].value.subresource)
    ELSE Accumulated(base, sels, n - 1)

HasSelector(target) == {"source", "type", "selector"} \subseteq DOMAIN target

\* C14: for a target with source, type and selector get_target_info returns
\* the base descriptor {id: source, type} with, selector by selector, the
\* descriptors of a SubresourceSelector's nesting levels appended outer to
\* inner and everything so far replaced by a NestedPIDSelector's value list.
C14_SelectorInfo ==
    \A k \in 1..Len(document) :
        HasSelector(document[k]) =>
            \E r \in {get_target_info(document[k])} :
                /\ r.err = "ok"
                /\ r.info = Accumulated([id |-> document[k].source, type |-> document[k].type],
                                        selector_list(document[k].selector),
                                        Len(selector_list(document[k].selector)))

\* get_targets_info has returned the descriptors of a target whose selectors
\* are a SubresourceSelector of two levels, a NestedPIDSelector and a
\* SubresourceSelector: the value list and the last subresource
C14_Witness ==
    /\ outcome.op = "get_targets_info"
    /\ outcome.err = "ok"
    /\ Len(document) = 1
    /\ HasSelector(document[1])
    /\ \E sels \in {selector_list(document[1].selector)} :
        /\ Len(sels) = 3
        /\ sels[1].type = "SubresourceSelector"
        /\ Depth(sels[1].value.subresource) = 2
        /\ sels[2].type = "NestedPIDSelector"
        /\ sels[3].type = "SubresourceSelector"
        /\ Depth(sels[3].value.subresource) = 2
        /\ Len(outcome.list) = Len(sels[2].value)
        /\ outcome.list[Len(outcome.list)].id = "r2"

----------------------------------------------------------------------------

\* C15 (as claimed): for every target get_target_info accepts, get_target_id
\* returns the ids of the descriptors get_target_info returns, in their order.
C15_TargetIdsMirrorInfo ==
    \A k \in 1..Len(document) :
        \E r \in {get_target_info(document[k])} :
            r.err = "ok" =>
                /\ get_target_id(document[k]).err = "ok"
                /\ get_target_id(document[k]).ids = [j \in 1..Len(r.info) |-> r.info[j].id]

----------------------------------------------------------------------------

\* the types among Annotation, AnnotationPage, AnnotationCollection that
\* appear in the document's type
PrimaryTypes(doc) ==
    {t \in {"Annotation", "AnnotationPage", "AnnotationCollection"} :
        \E k \in 1..Len(as_list(doc.type)) : as_list(doc.type)[k] = StrTarget(t)}

HasAnnoContext(doc) ==
    "@context" \in DOMAIN doc /\ doc["@context"] = StrTarget(AnnoContext)

\* C16: validate accepts a document only if its @context is
\* http://www.w3.org/ns/anno.jsonld and exactly one of Annotation,
\* AnnotationPage, AnnotationCollection appears in its type; a document
\* without that @context, and one in whose type none or several of the three
\* appear, fails with an AnnotationError.
C16_ExactlyOnePrimaryType ==
    \E r \in {validate(document)} :
        /\ r.kind = "ok" =>
               /\ is_dict(document)
               /\ HasAnnoContext(document)
               /\ "type" \in DOMAIN document
               /\ Cardinality(PrimaryTypes(document)) = 1
        /\ (is_dict(document) /\ ~HasAnnoContext(document)) => r.kind = "AnnotationError"
        /\ (is_dict(document) /\ "type" \in DOMAIN document
              /\ Cardinality(PrimaryTypes(document)) # 1) => r.kind = "AnnotationError"

\* validate has accepted a document whose type is a list with Annotation and
\* a type that is none of the three
C16_Witness ==
    /\ outcome = [op |-> "validate", result |-> Passed]
    /\ document.type = JList(<<StrTarget("Other"), StrTarget("Annotation")>>)
    /\ "list" \in DOMAIN document.target

----------------------------------------------------------------------------

\* the target is a string that is an IRI, or an object whose id, or whose
\* source when it has no id, is an IRI
YieldsIRI(target) ==
    \/ IsStr(target) /\ target.string \in IRIs
    \/ /\ is_dict(target)
       /\ \/ "id" \in DOMAIN target /\ target.id \in IRIs
          \/ "id" \notin DOMAIN target /\ "source" \in DOMAIN target /\ target.source \in IRIs

\* C17 (as claimed): of a document with the @context and the one type
\* Annotation, validate succeeds exactly when target is present and every
\* target yields an IRI, and fails with an AnnotationError of status 400
\* otherwise.
C17_TargetsMustBeIRIs ==
    (is_dict(document) /\ HasAnnoContext(document) /\ "type" \in DOMAIN document
       /\ has_valid_type(document).err = Passed /\ has_valid_type(document).type = "Annotation")
    => \E r \in {validate(document)} :
           /\ r.kind = "ok" <=>
                  /\ "target" \in DOMAIN document
                  /\ \A k \in 1..Len(as_list(document.target)) :
                         YieldsIRI(as_list(document.target)[k])
           /\ r.kind # "ok" => (r.kind = "AnnotationError" /\ r.status = 400)

----------------------------------------------------------------------------

\* C18 (as claimed): a successful update_annotation_es leaves the created of
\* every stored annotation as it was, the updated one and the ones updated
\* along with it, and the stored record of the updated annotation carries the
\* modified of this update.
C18_CreatedSurvivesUpdate ==
    \A id \in StoreIds, targets \in FieldLists, fields \in FieldSets, ord \in HitOrders :
        \E r \in {update_annotation_es(TimedState, FieldDoc(id, targets, fields), ord, 1)} :
            r.err = "ok" =>
                /\ \A a \in DOMAIN es["Annotation"] :
                       "created" \in DOMAIN es["Annotation"][a] =>
                           /\ "created" \in DOMAIN r.st.es["Annotation"][a]
                           /\ r.st.es["Annotation"][a].created = es["Annotation"][a].created
                /\ "modified" \in DOMAIN r.st.es["Annotation"][id]
                /\ r.st.es["Annotation"][id].modified = now

----------------------------------------------------------------------------

\* C19 (as claimed): after a successful add_annotation_es or
\* update_annotation_es of a document with permissions, the stored record has
\* the permissions of the document.
C19_PermissionsStored ==
    \A id \in StoreIds, targets \in FieldLists, fields \in FieldSets, ord \in HitOrders :
        "permissions" \in DOMAIN fields =>
            \A r \in {add_annotation_es(TimedState, FieldDoc(id, targets, fields)),
                      update_annotation_es(TimedState, FieldDoc(id, targets, fields), ord, 1)} :
                r.err = "ok" =>
                    /\ "permissions" \in DOMAIN r.st.es["Annotation"][id]
                    /\ r.st.es["Annotation"][id].permissions = fields.permissions

----------------------------------------------------------------------------

\* no two descriptors of the list have the same id
DistinctIds(list) ==
    \A j, k \in 1..Len(list) : j # k => list[j].id # list[k].id

\* C20 (as claimed): the list get_target_list returns for targets whose
\* direct descriptors have different ids starts with the direct descriptors
\* in their order and holds no two descriptors with the same id.
C20_NoDuplicateIds ==
    \A id \in AnnoIds, targets \in ProbeLists :
        \E r \in {get_target_list(State, id, targets, 1)} :
            (r.err = "ok" /\ DistinctIds(get_targets_info(targets).info)) =>
                /\ SubSeq(r.list, 1, Len(get_targets_info(targets).info))
                       = get_targets_info(targets).info
                /\ DistinctIds(r.list)

----------------------------------------------------------------------------

\* an id that is in one of the two lists and not in the other
IdsDiffer(list1, list2) ==
    \/ \E j \in 1..Len(list1) : \A k \in 1..Len(list2) : list1[j].id # list2[k].id
    \/ \E k \in 1..Len(list2) : \A j \in 1..Len(list1) : list1[j].id # list2[k].id

\* the target_list update_annotation_es computes for these targets
NewTargetList(id, targets) == get_target_list(State, id, targets, 1).list

\* C21: in a successful update_annotation_es, target_list_changed is true
\* exactly when some id is in one of the new and the stored target_list and
\* not in the other; when it is, the index is refreshed after the write, so
\* that the new record is searchable (update_chained_annotations ran); when
\* it is not, no stored record but the updated annotation's own changes.
C21_CascadeIffIdsDiffer ==
    \A id \in AnnoIds, targets \in TargetLists, ord \in HitOrders :
        \E r \in {update_annotation_es(State, Doc(id, targets), ord, 1)} :
            r.err = "ok" =>
                /\ target_list_changed(NewTargetList(id, targets), Stored[id].target_list)
                       <=> IdsDiffer(NewTargetList(id, targets), Stored[id].target_list)
                /\ IdsDiffer(NewTargetList(id, targets), Stored[id].target_list) =>
                       /\ id \in DOMAIN r.st.searchable["Annotation"]
                       /\ r.st.searchable["Annotation"][id].target_list
                              = NewTargetList(id, targets)
                /\ ~IdsDiffer(NewTargetList(id, targets), Stored[id].target_list) =>
                       \A a \in DOMAIN Stored \ {id} :
                           r.st.es["Annotation"][a] = Stored[a]

\* an annotation that another one targets can be updated with targets of the
\* same ids and another descriptor, and with targets of other ids
C21_Witness ==
    \E id \in AnnoIds, ord \in HitOrders :
        /\ \E a \in ActiveIds \ {id} : id \in IdSet(Stored[a].target_list)
        /\ \E targets \in TargetLists :
               /\ update_annotation_es(State, Doc(id, targets), ord, 1).err = "ok"
               /\ ~IdsDiffer(NewTargetList(id, targets), Stored[id].target_list)
               /\ NewTargetList(id, targets) # Stored[id].target_list
        /\ \E targets \in TargetLists :
               /\ update_annotation_es(State, Doc(id, targets), ord, 1).err = "ok"
               /\ IdsDiffer(NewTargetList(id, targets), Stored[id].target_list)

----------------------------------------------------------------------------

\* the set of the descriptors of a list from its second on
Deeper(list) == {list[k] : k \in 2..Len(list)}

\* C22: get_target_list of an annotation whose one target is a descriptor of
\* type Annotation naming b.  If b is tombstoned the result is that
\* descriptor alone and the store is not read (no refresh happens); if b is
\* active it is fetched (the index is refreshed first) and the descriptors
\* after the first are the ones b reaches through the target fields of the
\* stored documents.
C22_TombstonedTargetIsLeaf ==
    \A b \in DOMAIN Stored : \A id \in AnnoIds \ {b} :
        \E r \in {get_target_list(State, id, <<SelfDescriptor(b)>>, 1)} :
            /\ has_deleted_status(Stored[b]) =>
                   /\ r.err = "ok"
                   /\ r.list = <<SelfDescriptor(b)>>
                   /\ r.st = State
            /\ (~has_deleted_status(Stored[b]) /\ r.err = "ok") =>
                   /\ r.list[1] = SelfDescriptor(b)
                   /\ Deeper(r.list) = Reaches(Stored, b)
                   /\ ~r.st.needs_refresh
                   /\ r.st.searchable = es

\* a tombstoned annotation with the index waiting for a refresh, and an
\* active annotation whose stored target_list is not what its targets give
C22_Witness ==
    /\ needs_refresh
    /\ \E b \in TombstonedIds : TRUE
    /\ \E b \in ActiveIds : \E id \in AnnoIds \ {b} :
           \E r \in {get_target_list(State, id, <<SelfDescriptor(b)>>, 1)} :
               /\ r.err = "ok"
               /\ Len(r.list) > 1
               /\ SubSeq(r.list, 2, Len(r.list)) # Stored[b].target_list

----------------------------------------------------------------------------

----------------------------------------------------------------------------

\* no non-tombstoned annotation of the view reaches itself through targets
\* of type Annotation
Acyclic(view) ==
    \A i \in ActiveIn(view) :
        \A d \in Reaches(view, i) : is_annotation(d) => d.id # i

\* the stored documents once this document is stored
StoredWith(doc) == [i \in DOMAIN Stored \cup {doc.id} |-> IF i = doc.id THEN doc ELSE Stored[i]]

\* C24 (as claimed): in a state whose stored annotations are acyclic, the
\* recursion of no add_annotation_es, update_annotation_es or
\* remove_annotation_es goes on without end.
C24_AcyclicStoreTerminates ==
    Acyclic(Stored) =>
        \A id \in AnnoIds, ord \in HitOrders :
            /\ \A r \in AddResults(id) \cup UpdateResults(id) : r.err # RecursionError
            /\ remove_annotation_es(State, id, ord).err # RecursionError

\* C24, with the submitted document: the recursion of an add_annotation_es,
\* update_annotation_es or remove_annotation_es ends when the stored
\* annotations, with the submitted document in the place of the stored one,
\* are acyclic.
C24_AcyclicWithDocumentTerminates ==
    \A id \in AnnoIds, ord \in HitOrders :
        /\ \A targets \in TargetLists :
               Acyclic(StoredWith(Doc(id, targets))) =>
                   /\ add_annotation_es(State, Doc(id, targets)).err # RecursionError
                   /\ update_annotation_es(State, Doc(id, targets), ord, 1).err
                          # RecursionError
        /\ Acyclic(Stored) => remove_annotation_es(State, id, ord).err # RecursionError

----------------------------------------------------------------------------

\* two different non-tombstoned annotations that target each other
MutualTargets ==
    {p \in ActiveIds \X ActiveIds :
        /\ p[1] # p[2]
        /\ Stored[p[1]].target = <<SelfDescriptor(p[2])>>
        /\ Stored[p[2]].target = <<SelfDescriptor(p[1])>>}

\* C25: where two non-tombstoned annotations target each other,
\* get_target_list of either, and of an annotation targeting one of them,
\* recurs without end instead of raising "Annotation cannot target itself",
\* and so does the update_chained_annotations of the remove of an annotation
\* whose id the stored target_list of one of them holds.
C25_MutualTargetsRecur ==
    \A p \in MutualTargets :
        /\ Closure(p[1]).err = RecursionError
        /\ \A c \in AnnoIds \ {p[1], p[2]} :
               get_target_list(State, c, <<SelfDescriptor(p[1])>>, 1).err = RecursionError
        /\ \A c \in ActiveIds \ {p[1], p[2]}, ord \in HitOrders :
               c \in IdSet(Stored[p[1]].target_list) =>
                   remove_annotation_es(State, c, ord).err = RecursionError

\* adds and updates alone have led to two annotations that target each
\* other, the stored target_list of one holding the id of a third
C25_Witness ==
    /\ TombstonedIds = {}
    /\ \E p \in MutualTargets :
           \E c \in ActiveIds \ {p[1], p[2]} : c \in IdSet(Stored[p[1]].target_list)

----------------------------------------------------------------------------

\* C26 (as claimed): whenever needs_refresh is false, every write to the
\* index has been followed by a refresh: what a search sees is what is
\* stored.
C26_FreshMeansAllWritesVisible ==
    ~needs_refresh => searchable = es

----------------------------------------------------------------------------

\* both processes have returned from an update_annotation_es of the same
\* annotation without an error
BothUpdated ==
    /\ \A p \in Procs : outcome[p].pc = "done" /\ outcome[p].err = "ok"
    /\ \A p, q \in Procs : document[p].id = document[q].id

\* C27: when two interleaved update_annotation_es of one annotation have both
\* returned without an error, the stored record is the document of one of the
\* two with the target_list that process computed: nothing of the other
\* call is in it.
C27_LastWriterWins ==
    BothUpdated =>
        \E p \in Procs :
            es["Annotation"][document[p].id]
                = SetKey(document[p], "target_list", outcome[p].new_target_list)

\* both calls have returned without an error with different documents, and
\* an annotation targeting the updated one holds in its stored target_list
\* an id it does not reach: the process that wrote last compared its
\* target_list with one read before the other call's write
C27_Witness ==
    /\ BothUpdated
    /\ \E p, q \in Procs : document[p].target # document[q].target
    /\ \E a \in ActiveIn(es["Annotation"]) :
           /\ \A p \in Procs : a # document[p].id
           /\ IdSet(es["Annotation"][a].target_list)
                  # {d.id : d \in Reaches(es["Annotation"], a)}

----------------------------------------------------------------------------

\* C28: a successful remove_annotation_es leaves every stored collection as
\* it was, the ones listing the removed id among them, and after it
\* remove_annotation_from_collection_es of that id raises the 404 error for
\* every collection and changes nothing.
C28_RemovedStaysInCollections ==
    \A i \in ActiveIds, ord \in HitOrders :
        \E r \in {remove_annotation_es(State, i, ord)} :
            r.err = "ok" =>
                /\ r.st.es["AnnotationCollection"] = StoredCollections
                /\ \A c \in CollIds :
                       \E rc \in {remove_annotation_from_collection_es(r.st, i, c)} :
                           /\ rc.err = NotFound
                           /\ rc.st.es = r.st.es

\* a collection lists an annotation whose remove_annotation_es succeeds
C28_Witness ==
    \E i \in ActiveIds, ord \in HitOrders, c \in ActiveCollections :
        /\ IsMember(StoredCollections[c].items, i)
        /\ StoredCollections[c].total = Len(StoredCollections[c].items)
        /\ remove_annotation_es(State, i, ord).err = "ok"
        /\ remove_annotation_from_collection_es(State, i, c).err = "ok"

====
